---- MODULE Spec2Model ----
(***************************************************************************)
(* Model of the smart-home multi-agent orchestration graph of              *)
(* src/system_implementation/smart_home_langgraph.py.                      *)
(*                                                                         *)
(* The graph's shared state (SmartHomeState) is one record, `state`, with  *)
(* the TypedDict's keys.  Every node of the graph (human, intent_analysis, *)
(* task_planner and the eight device agents) is a function from the state  *)
(* to a Command (an update of some keys and a goto); here each node is an  *)
(* operator giving the set of Commands it can return, one per answer the   *)
(* language model (the Decision Oracle) can give.  The graph runtime       *)
(* applies the chosen Command: Deliver.                                    *)
(*                                                                         *)
(* Python values: a dict is a function with a string domain and a list is  *)
(* a sequence.  A string held in a dict or in a key of the state is the    *)
(* one-element tuple of that string (<<"ok">> is 'ok', <<"None">> is the   *)
(* string 'None', <<"">> is ''), and None, {} and [] are the empty tuple   *)
(* <<>>: None differs from every string.  Names of keys, of nodes and of   *)
(* the catalog's devices are plain strings.  The text the user types is a  *)
(* sequence of code points (<<104, 105>> is 'hi'), so that strip() and     *)
(* the quit test are computed, not assumed.  Values of the intent oracle's *)
(* answer, which the code measures with len() and stores before anything   *)
(* has fixed their type, carry their type, and so do the elements of a     *)
(* list among them: [list |-> s] is a list with the elements of s,         *)
(* [str |-> t] the string with the code points t, [dict |-> d] a dict,     *)
(* [num |-> n] a number, and null is None.                                 *)
(***************************************************************************)
EXTENDS Naturals, Sequences, FiniteSets, TLC

VARIABLES
    pc,            \* the node that holds control, or "END" / "exit" / "error" /
                   \* "out_of_steps"
    state,         \* the SmartHomeState record
    oracle_calls,  \* number of chain.invoke calls made so far
    plan,          \* the task queue installed by the latest Plan step
    plan_start,    \* Len(state.task_history) when that queue was installed
    tasks_planned, \* number of tasks planned so far in the session
    writer_log,    \* writer_log[i]: the node that appended state.task_history[i]
    oracle_ok,     \* every oracle answer so far had a shape the interface permits
    hops,          \* agent activations spent so far on the task at the queue head
    act_log,       \* the agent nodes whose Command the runtime applied, in order
    stored_from,   \* index of the message original_user_input was read from (0: none)
    planned_from,  \* one record per call of the planning oracle: the message
                   \* planned from and the number of utterances supplied so far
    unset,         \* the keys of the state that nothing has written yet
    steps          \* supersteps run so far in the current graph.stream call

vars == <<pc, state, oracle_calls, plan, plan_start, tasks_planned, writer_log,
          oracle_ok, hops, act_log, stored_from, planned_from, unset, steps>>

-----------------------------------------------------------------------------
(* Bounds of the model *)

\* utterances a session may supply (human messages appended)
MaxTurns == 2
\* tasks the planning oracle may plan in one session, over all its plans
MaxTasks == 2

-----------------------------------------------------------------------------
(* Python values *)

NoneVal == <<>>
EmptyDict == <<>>

Get(d, k) == IF k \in DOMAIN d THEN d[k] ELSE NoneVal

\* d.get(k) where the value is a dict (None and {} are both the empty function)
GetDict(d, k) == IF k \in DOMAIN d THEN d[k] ELSE EmptyDict

\* Python truth value of a string-or-None
TruthyStr(s) == s /= NoneVal /\ s /= <<"">>

\* a string-or-None inside an f-string: f"{None}" is 'None'
Format(s) == IF s = NoneVal THEN "None" ELSE s[1]

\* Python truth value of a dict-or-None, a list, or a character sequence
TruthyDict(d) == DOMAIN d /= {}

-----------------------------------------------------------------------------
(* The fixed catalog and the graph's nodes *)

Catalog ==
    {"clock", "calendar", "search_engine", "tv_display",
     "fridge", "lighting", "thermostat", "audio_system"}

AgentNode(d) == d \o "_agent"

Nodes == {"human", "intent_analysis", "task_planner"} \cup {AgentNode(d) : d \in Catalog}

\* the static edges builder.add_edge(START, "human"), ("task_planner", END)
StartNode == "human"

\* a variant of the static edges with a second edge out of task_planner
StaticSuccessors_fanout(node) ==
    IF node = "task_planner" THEN {"END", "clock_agent"} ELSE {}

StaticSuccessors(node) == IF node = "task_planner" THEN {"END"} ELSE {}

ResponseKey(d) == d \o "_response"
ResultKey(d) == d \o "_result"

StateKeys ==
    {"messages", "complexity_score", "infos", "original_user_input",
     "task_queue", "key_modifiers", "collaboration_request", "pending_task",
     "task_history"}
    \cup {ResponseKey(d) : d \in Catalog} \cup {ResultKey(d) : d \in Catalog}

\* the "device" string each agent writes into its history entries
HistoryDevice(d) == IF d = "audio_system" THEN "audio system" ELSE d

-----------------------------------------------------------------------------
(* Strings typed by the user: sequences of code points *)

\* the characters for which str.isspace() holds: \t \n \x0b \x0c \r,
\* \x1c-\x1f, the blank, \x85, \xa0 and the Unicode spaces
Whitespace ==
    (9..13) \cup (28..32) \cup {133, 160, 5760} \cup (8192..8202)
    \cup {8232, 8233, 8239, 8287, 12288}

\* str.strip(): drop leading and trailing whitespace
Strip(s) ==
    LET keep == {i \in 1..Len(s) : s[i] \notin Whitespace}
    IN  IF keep = {} THEN <<>>
        ELSE LET lo == CHOOSE i \in keep : \A j \in keep : i <= j
                 hi == CHOOSE i \in keep : \A j \in keep : j <= i
             IN  SubSeq(s, lo, hi)

\* {"q", "quit", "exit"}
QuitWords == {<<113>>, <<113, 117, 105, 116>>, <<101, 120, 105, 116>>}

\* s.lower() == w for a word w of the letters a-z.  str.lower() gives such a
\* letter for that letter and for its capital, 32 code points below it, and
\* for no other character (U+0130 gives i followed by U+0307), so the test
\* is one on the length and on each character
LowerIs(s, w) ==
    /\ Len(s) = Len(w)
    /\ \A i \in 1..Len(w) : s[i] = w[i] \/ s[i] = w[i] - 32

\* the inputs the Session Driver may resume the interrupt with:
\* 'hi', 'go', '', 'q', ' Quit\r\n', 'ExiT', '\x0bexit\xa0'
UserInputs ==
    {<<104, 105>>, <<103, 111>>, <<>>,
     <<113>>, <<32, 81, 117, 105, 116, 13, 10>>, <<69, 120, 105, 84>>,
     <<11, 101, 120, 105, 116, 160>>}

-----------------------------------------------------------------------------
(* Commands returned by the nodes *)

NoGoto == "<none>"

\* Command(update=..., goto=...) after `calls` oracle calls
Command(update, goto, calls) ==
    [kind |-> "command", update |-> update, goto |-> goto, calls |-> calls]

\* the node function returns None: no update, no goto
ReturnNone == [kind |-> "command", update |-> EmptyDict, goto |-> NoGoto, calls |-> 0]

\* an exception leaves the node: nothing is written
Raise(calls) == [kind |-> "raise", update |-> EmptyDict, goto |-> NoGoto, calls |-> calls]

\* raise SystemExit
Exit == [kind |-> "exit", update |-> EmptyDict, goto |-> NoGoto, calls |-> 0]

\* the add_messages reducer of the messages channel: a message whose id is
\* already in the list replaces that message, any other message is appended
\* under a fresh id (0 stands for "no id yet")
RECURSIVE AddMessages(_, _)
AddMessages(left, right) ==
    IF right = <<>> THEN left
    ELSE LET m == Head(right)
             hit == {i \in 1..Len(left) : m.id /= 0 /\ left[i].id = m.id}
             merged == IF hit /= {}
                       THEN [left EXCEPT ![CHOOSE i \in hit : TRUE] = m]
                       ELSE Append(left, [m EXCEPT !.id = Len(left) + 1])
         IN  AddMessages(merged, Tail(right))

\* the nodes that run after `node` returned the Command c: the node its goto
\* names and the targets of the node's static edges (END is no node)
Successors(node, c) ==
    (StaticSuccessors(node) \cup (IF c.goto = NoGoto THEN {} ELSE {c.goto})) \ {"END"}

-----------------------------------------------------------------------------
(* human *)

\* a variant of human that compares the input without lower-casing it
human_noLower(user_input) ==
    IF Strip(user_input) \in QuitWords
    THEN Exit
    ELSE Command(
            [messages |-> state.messages
                          \o <<[role |-> "human", content |-> user_input, id |-> 0]>>],
            "intent_analysis", 0)

human(user_input) ==
    IF \E w \in QuitWords : LowerIs(Strip(user_input), w)
    THEN Exit
    ELSE Command(
            [messages |-> state.messages
                          \o <<[role |-> "human", content |-> user_input, id |-> 0]>>],
            "intent_analysis", 0)

-----------------------------------------------------------------------------
(* intent_analysis *)

\* the content of the first human message, or Missing (no code point) when
\* there is none
Missing == <<1114112>>
get_user_input ==
    LET hs == {i \in 1..Len(state.messages) : state.messages[i].role = "human"}
    IN  IF hs = {} THEN Missing
        ELSE state.messages[CHOOSE i \in hs : \A j \in hs : i <= j].content

\* the position in state["messages"] of the message get_user_input returns
get_user_input_index ==
    LET hs == {i \in 1..Len(state.messages) : state.messages[i].role = "human"}
    IN  IF hs = {} THEN 0 ELSE CHOOSE i \in hs : \A j \in hs : i <= j

\* len(v) is defined for a list, a string and a dict, and raises TypeError
\* for None and for a number
Sized(v) == {"list", "str", "dict"} \cap DOMAIN v /= {}
PyLen(v) ==
    IF "list" \in DOMAIN v THEN Len(v.list)
    ELSE IF "str" \in DOMAIN v THEN Len(v.str)
    ELSE Cardinality(DOMAIN v.dict)

\* the empty list
EmptyList == [list |-> <<>>]

\* answers of the intent oracle: a parsed JSON object, or Unparsable.  "infos"
\* is the list ['i1'] or null (result.get reads a key left out as None too)
Unparsable == [unparsable |-> TRUE]
IntentOutputs ==
    {[infos |-> [list |-> <<[str |-> <<105, 49>>]>>], key_modifiers |-> EmptyList],
     [infos |-> NoneVal, key_modifiers |-> EmptyList],
     Unparsable}

intent_analysis(result) ==
    LET user_message == get_user_input
    IN  IF user_message = Missing \/ user_message = <<>> THEN Raise(0)
        ELSE IF result = Unparsable THEN Raise(1)
        ELSE LET infos == Get(result, "infos")
             IN  IF ~Sized(infos) THEN Raise(1)                \* len(None)
                 ELSE Command(
                [complexity_score |-> PyLen(infos),
                 infos |-> infos,
                 key_modifiers |-> IF "key_modifiers" \in DOMAIN result
                                   THEN result.key_modifiers
                                   ELSE EmptyList,
                 original_user_input |-> user_message],
                "task_planner", 1)

-----------------------------------------------------------------------------
(* task_planner *)

\* the tasks the planning oracle draws its plans from; "toaster" is a device
\* outside the catalog
PlanTasks ==
    {[device |-> <<"clock">>, action |-> <<"a1">>],
     [device |-> <<"audio_system">>, action |-> <<"a2">>],
     [device |-> <<"toaster">>, action |-> <<"a1">>]}

RECURSIVE SeqsUpTo(_, _)
SeqsUpTo(S, n) ==
    IF n = 0 THEN {<<>>}
    ELSE LET shorter == SeqsUpTo(S, n - 1)
         IN  shorter \cup {Append(q, x) : q \in {r \in shorter : Len(r) = n - 1}, x \in S}

\* answers of the planning oracle: a task list, an empty or absent task list,
\* a task without a device, or output the JSON parser rejects
PlanOutputs ==
    {[task_queue |-> q] : q \in SeqsUpTo(PlanTasks, MaxTasks - tasks_planned)}
    \cup {EmptyDict, [task_queue |-> <<[action |-> <<"a1">>]>>], Unparsable}

\* a variant of planner_resume that pops the head task as it dispatches it
planner_resume_pops(task_queue) ==
    IF "device" \notin DOMAIN task_queue[1] THEN Raise(0)
    ELSE Command([task_queue |-> Tail(task_queue)], AgentNode(Format(task_queue[1].device)), 0)

\* continue executing the remaining tasks
planner_resume(task_queue) ==
    IF "device" \notin DOMAIN task_queue[1] THEN Raise(0)
    ELSE Command([task_queue |-> task_queue], AgentNode(Format(task_queue[1].device)), 0)

\* the inputs of the planning oracle call
plan_invoke ==
    [original_input |-> state.original_user_input,
     infos |-> IF "infos" \in unset THEN EmptyList ELSE state.infos,
     key_modifiers |-> IF "key_modifiers" \in unset THEN EmptyList
                       ELSE state.key_modifiers]

\* a variant of task_planner that installs an empty plan and ends the turn
task_planner_installsEmpty(result) ==
    LET original_input == state.original_user_input
        task_queue == state.task_queue
    IN  IF task_queue /= <<>>
        THEN planner_resume(task_queue)
        ELSE IF original_input /= <<>>
        THEN IF result = Unparsable THEN Raise(1)
             ELSE LET new_task_queue == GetDict(result, "task_queue")
                  IN  IF new_task_queue = <<>>
                      THEN Command([task_queue |-> <<>>, original_user_input |-> <<>>],
                                   NoGoto, 1)
                      ELSE IF "device" \notin DOMAIN new_task_queue[1] THEN Raise(1)
                      ELSE Command(
                              [task_queue |-> new_task_queue,
                               original_user_input |-> <<>>],
                              AgentNode(Format(new_task_queue[1].device)), 1)
        ELSE Command([task_queue |-> <<>>], NoGoto, 0)

task_planner(result) ==
    LET original_input == state.original_user_input
        task_queue == state.task_queue
    IN  IF task_queue /= <<>>
        THEN planner_resume(task_queue)
        ELSE IF original_input /= <<>>
        THEN \* fresh start
             IF result = Unparsable THEN Raise(1)
             ELSE LET new_task_queue == GetDict(result, "task_queue")
                  IN  IF new_task_queue = <<>> THEN Raise(1)      \* None[0], [][0]
                      ELSE IF "device" \notin DOMAIN new_task_queue[1] THEN Raise(1)
                      ELSE Command(
                              [task_queue |-> new_task_queue,
                               original_user_input |-> <<>>],
                              AgentNode(Format(new_task_queue[1].device)), 1)
        ELSE Command([task_queue |-> <<>>], NoGoto, 0)

-----------------------------------------------------------------------------
(* the eight device agents: clock_agent, search_engine_agent, ...          *)
(* They are one text with the device name changed, but for the history     *)
(* device name of audio_system_agent (HistoryDevice) and the queue read of  *)
(* fridge_agent (QueueIsNone).                                              *)

Targets == {"clock", "toaster"}
Requests == {"q1"}

\* answers of a worker's oracle call
WorkerOutputs ==
    {[response |-> <<"ok">>, collaboration_request |-> EmptyDict],
     [response |-> <<"ok">>],
     EmptyDict,
     [response |-> <<"ok">>, collaboration_request |-> [target |-> <<"clock">>, request |-> <<"q1">>]],
     [collaboration_request |-> [target |-> <<"fridge">>]],
     Unparsable}
    \cup {[collaboration_request |-> [target |-> <<t>>, request |-> <<q>>]] :
            t \in Targets, q \in Requests}

\* a variant of Rest that forgets to pop the head
RestKeep(q) == q

\* task_queue[1:]
Rest(q) == IF q = <<>> THEN <<>> ELSE Tail(q)

\* a variant of Log that starts the history over
LogReplace(task_history, new_entry) == <<new_entry>>

\* task_history + [new_entry]
Log(task_history, new_entry) == task_history \o <<new_entry>>

\* a variant of Branch 1 that honours a collaboration request in the answer
agent_respond_delegates(w, result) ==
    LET collaboration_request == state.collaboration_request
        task_history == state.task_history
        requester == Get(collaboration_request, "requester")
        request == Get(collaboration_request, "request")
    IN  IF result = Unparsable THEN Raise(1)
        ELSE LET collaboration == GetDict(result, "collaboration_request")
                 response == Get(result, "response")
             IN  IF TruthyStr(Get(collaboration, "target")) /\ "request" \in DOMAIN collaboration
                 THEN Command(
                        [collaboration_request |->
                             [requester |-> <<w>>,
                              target |-> collaboration.target,
                              request |-> collaboration.request],
                         pending_task |->
                             [device |-> <<w>>,
                              action |-> request,
                              waiting_for |-> collaboration.target],
                         task_history |->
                             Log(task_history,
                                 [device |-> <<HistoryDevice(w)>>,
                                  type |-> <<"collaboration_request">>,
                                  action_taken |-> request,
                                  result |-> [target |-> collaboration.target,
                                              request |-> collaboration.request]])],
                        AgentNode(Format(collaboration.target)), 1)
                 ELSE Command(
                        (ResponseKey(w) :> response)
                        @@ [collaboration_request |-> EmptyDict,
                            task_history |->
                                Log(task_history,
                                    [device |-> <<HistoryDevice(w)>>,
                                     type |-> <<"collaboration_response">>,
                                     action_taken |-> request,
                                     result |-> response])],
                        AgentNode(Format(requester)), 1)

\* a variant of Branch 1 that also clears the requester's pending task
agent_respond_clearsPending(w, result) ==
    LET collaboration_request == state.collaboration_request
        requester == Get(collaboration_request, "requester")
        request == Get(collaboration_request, "request")
    IN  IF result = Unparsable THEN Raise(1)
        ELSE Command(
                (ResponseKey(w) :> Get(result, "response"))
                @@ [collaboration_request |-> EmptyDict,
                    pending_task |-> EmptyDict,
                    task_history |->
                        Log(state.task_history,
                            [device |-> <<HistoryDevice(w)>>,
                             type |-> <<"collaboration_response">>,
                             action_taken |-> request,
                             result |-> Get(result, "response")])],
                AgentNode(Format(requester)), 1)

\* a variant of Branch 1 that answers without logging its answer
agent_respond_silent(w, result) ==
    LET requester == Get(state.collaboration_request, "requester")
    IN  IF result = Unparsable THEN Raise(1)
        ELSE Command(
                (ResponseKey(w) :> Get(result, "response"))
                @@ [collaboration_request |-> EmptyDict],
                AgentNode(Format(requester)), 1)

\* Branch 1: respond to a collaboration request from another agent
agent_respond(w, result) ==
    LET collaboration_request == state.collaboration_request
        task_history == state.task_history
        requester == Get(collaboration_request, "requester")
        request == Get(collaboration_request, "request")
    IN  IF result = Unparsable THEN Raise(1)
        ELSE LET response == Get(result, "response")
                 new_entry == [device |-> <<HistoryDevice(w)>>,
                               type |-> <<"collaboration_response">>,
                               action_taken |-> request,
                               result |-> response]
             IN  Command(
                    (ResponseKey(w) :> response)
                    @@ [collaboration_request |-> EmptyDict,
                        task_history |-> Log(task_history, new_entry)],
                    AgentNode(Format(requester)), 1)

\* state.get("task_queue") is None in fridge_agent when nothing has written
\* the queue; the seven other agents read state.get("task_queue", []), which
\* is [] then
QueueIsNone(w) == w = "fridge" /\ "task_queue" \in unset

\* a variant of Branch 2 that completes the task but keeps the pending task
agent_resume_keepsPending(w, result) ==
    LET task_queue == state.task_queue
        pending_task == state.pending_task
        task_history == state.task_history
        collaborator == Get(pending_task, "waiting_for")
        original_action == Get(pending_task, "action")
    IN  IF result = Unparsable THEN Raise(1)
        ELSE IF QueueIsNone(w) THEN Raise(1)      \* None[1:]
        ELSE LET device_result == Get(result, "response")
             IN  Command(
                    (ResultKey(w) :> device_result)
                    @@ (ResponseKey(Format(collaborator)) :> NoneVal)
                    @@ [task_queue |-> Rest(task_queue),
                        collaboration_request |-> EmptyDict,
                        task_history |->
                            Log(task_history,
                                [device |-> <<HistoryDevice(w)>>,
                                 type |-> <<"task_completion">>,
                                 action_taken |-> original_action,
                                 result |-> device_result])],
                    "task_planner", 1)

\* a variant of Branch 2 that leaves the collaborator's response in its slot
agent_resume_keepsResponse(w, result) ==
    LET task_queue == state.task_queue
        pending_task == state.pending_task
        task_history == state.task_history
        original_action == Get(pending_task, "action")
    IN  IF result = Unparsable THEN Raise(1)
        ELSE IF QueueIsNone(w) THEN Raise(1)      \* None[1:]
        ELSE LET device_result == Get(result, "response")
             IN  Command(
                    (ResultKey(w) :> device_result)
                    @@ [task_queue |-> Rest(task_queue),
                        pending_task |-> EmptyDict,
                        collaboration_request |-> EmptyDict,
                        task_history |->
                            Log(task_history,
                                [device |-> <<HistoryDevice(w)>>,
                                 type |-> <<"task_completion">>,
                                 action_taken |-> original_action,
                                 result |-> device_result])],
                    "task_planner", 1)

\* Branch 2: complete the pending task with the collaborator's response
agent_resume(w, result) ==
    LET task_queue == state.task_queue
        pending_task == state.pending_task
        task_history == state.task_history
        collaborator == Get(pending_task, "waiting_for")
        original_action == Get(pending_task, "action")
    IN  IF result = Unparsable THEN Raise(1)
        ELSE IF QueueIsNone(w) THEN Raise(1)      \* None[1:]
        ELSE LET device_result == Get(result, "response")
                 remaining_tasks == Rest(task_queue)
                 new_entry == [device |-> <<HistoryDevice(w)>>,
                               type |-> <<"task_completion">>,
                               action_taken |-> original_action,
                               result |-> device_result]
             IN  Command(
                    (ResultKey(w) :> device_result)
                    @@ (ResponseKey(Format(collaborator)) :> NoneVal)
                    @@ [task_queue |-> remaining_tasks,
                        pending_task |-> EmptyDict,
                        collaboration_request |-> EmptyDict,
                        task_history |-> Log(task_history, new_entry)],
                    "task_planner", 1)

\* a variant of Branch 3 that pops the queue head already when it suspends the
\* task on a collaboration request
agent_new_task_popsOnRequest(w, result) ==
    LET task_queue == state.task_queue
        task_history == state.task_history
        action == Get(task_queue[1], "action")
    IN  IF result = Unparsable THEN Raise(1)
        ELSE LET collaboration == GetDict(result, "collaboration_request")
             IN  IF TruthyDict(collaboration) /\ TruthyStr(Get(collaboration, "target"))
                 THEN IF "request" \notin DOMAIN collaboration THEN Raise(1)
                      ELSE Command(
                              [task_queue |-> Rest(task_queue),
                               collaboration_request |->
                                   [requester |-> <<w>>,
                                    target |-> collaboration.target,
                                    request |-> collaboration.request],
                               pending_task |->
                                   [device |-> <<w>>,
                                    action |-> action,
                                    waiting_for |-> collaboration.target],
                               task_history |->
                                   Log(task_history,
                                       [device |-> <<HistoryDevice(w)>>,
                                        type |-> <<"collaboration_request">>,
                                        action_taken |-> action,
                                        result |-> [target |-> collaboration.target,
                                                    request |-> collaboration.request]])],
                              AgentNode(Format(collaboration.target)), 1)
                 ELSE Command(
                         (ResultKey(w) :> Get(result, "response"))
                         @@ [task_queue |-> Rest(task_queue),
                             task_history |->
                                 Log(task_history,
                                     [device |-> <<HistoryDevice(w)>>,
                                      type |-> <<"task_completion">>,
                                      action_taken |-> action,
                                      result |-> Get(result, "response")])],
                         "task_planner", 1)

\* a variant of Branch 3 that catches the parser's exception and goes on with
\* an empty answer
agent_new_task_swallows(w, result) ==
    LET task_queue == state.task_queue
        task_history == state.task_history
        action == Get(task_queue[1], "action")
        answer == IF result = Unparsable THEN EmptyDict ELSE result
        collaboration == GetDict(answer, "collaboration_request")
    IN  IF TruthyDict(collaboration) /\ TruthyStr(Get(collaboration, "target"))
        THEN IF "request" \notin DOMAIN collaboration THEN Raise(1)
             ELSE Command(
                     [collaboration_request |->
                          [requester |-> <<w>>,
                           target |-> collaboration.target,
                           request |-> collaboration.request],
                      pending_task |->
                          [device |-> <<w>>,
                           action |-> action,
                           waiting_for |-> collaboration.target],
                      task_history |->
                          Log(task_history,
                              [device |-> <<HistoryDevice(w)>>,
                               type |-> <<"collaboration_request">>,
                               action_taken |-> action,
                               result |-> [target |-> collaboration.target,
                                           request |-> collaboration.request]])],
                     AgentNode(Format(collaboration.target)), 1)
        ELSE Command(
                (ResultKey(w) :> Get(answer, "response"))
                @@ [task_queue |-> Rest(task_queue),
                    task_history |->
                        Log(task_history,
                            [device |-> <<HistoryDevice(w)>>,
                             type |-> <<"task_completion">>,
                             action_taken |-> action,
                             result |-> Get(answer, "response")])],
                "task_planner", 1)

\* Branch 3: handle the task at the head of the queue
agent_new_task(w, result) ==
    LET task_queue == state.task_queue
        task_history == state.task_history
        action == Get(task_queue[1], "action")
    IN  IF result = Unparsable THEN Raise(1)
        ELSE LET collaboration == GetDict(result, "collaboration_request")
             IN  IF TruthyDict(collaboration) /\ TruthyStr(Get(collaboration, "target"))
                 THEN IF "request" \notin DOMAIN collaboration THEN Raise(1)
                      ELSE LET new_entry ==
                                  [device |-> <<HistoryDevice(w)>>,
                                   type |-> <<"collaboration_request">>,
                                   action_taken |-> action,
                                   result |-> [target |-> collaboration.target,
                                               request |-> collaboration.request]]
                           IN  Command(
                                  [collaboration_request |->
                                       [requester |-> <<w>>,
                                        target |-> collaboration.target,
                                        request |-> collaboration.request],
                                   pending_task |->
                                       [device |-> <<w>>,
                                        action |-> action,
                                        waiting_for |-> collaboration.target],
                                   task_history |-> Log(task_history, new_entry)],
                                  AgentNode(Format(collaboration.target)), 1)
                 ELSE LET remaining_tasks == Rest(task_queue)
                          device_result == Get(result, "response")
                          new_entry == [device |-> <<HistoryDevice(w)>>,
                                        type |-> <<"task_completion">>,
                                        action_taken |-> action,
                                        result |-> device_result]
                      IN  Command(
                             (ResultKey(w) :> device_result)
                             @@ [task_queue |-> remaining_tasks,
                                 task_history |-> Log(task_history, new_entry)],
                             "task_planner", 1)

\* the three branch conditions of the agent of device w
IsTarget(w) ==
    TruthyDict(state.collaboration_request)
    /\ Get(state.collaboration_request, "target") = <<w>>
\* a variant of HasPending that looks at the awaited worker instead of the owner
HasPendingAwaited(w) ==
    TruthyDict(state.pending_task) /\ Get(state.pending_task, "waiting_for") = <<w>>

HasPending(w) ==
    TruthyDict(state.pending_task) /\ Get(state.pending_task, "device") = <<w>>
OwnsHead(w) ==
    state.task_queue /= <<>> /\ Get(state.task_queue[1], "device") = <<w>>

\* a variant of the agent that looks at the pending task before the request
agent_resumeFirst(w, result) ==
    IF HasPending(w) THEN agent_resume(w, result)
    ELSE IF IsTarget(w) THEN agent_respond(w, result)
    ELSE IF OwnsHead(w) THEN agent_new_task(w, result)
    ELSE ReturnNone

\* a variant of the agent that looks at the queue head before the pending task
agent_newTaskFirst(w, result) ==
    IF IsTarget(w) THEN agent_respond(w, result)
    ELSE IF OwnsHead(w) THEN agent_new_task(w, result)
    ELSE IF HasPending(w) THEN agent_resume(w, result)
    ELSE ReturnNone

agent(w, result) ==
    IF IsTarget(w) THEN agent_respond(w, result)
    ELSE IF HasPending(w) THEN agent_resume(w, result)
    ELSE IF OwnsHead(w) THEN agent_new_task(w, result)
    ELSE ReturnNone

-----------------------------------------------------------------------------
(* The graph runtime *)

\* a node's update is written key by key; keys that are no channel of the
\* state are dropped, and the messages channel merges through its reducer
ApplyUpdate(update) ==
    [k \in DOMAIN state |->
        IF k \notin DOMAIN update THEN state[k]
        ELSE IF k = "messages" THEN AddMessages(state[k], update[k])
        ELSE update[k]]

\* a Plan step is a task_planner Command that clears the stored utterance
IsPlan(node, c) ==
    node = "task_planner" /\ "original_user_input" \in DOMAIN c.update

IsAgentNode(node) == \E d \in Catalog : node = AgentNode(d)

\* graph.stream is called with no recursion_limit, so the runtime's default
\* holds: a call runs at most this many supersteps (one node each, here)
RecursionLimit == 25

\* the update of the step is written; the node `next` runs as the next
\* superstep unless the call has used up its supersteps, and then the runtime
\* raises GraphRecursionError out of graph.stream
Commit(node, c, next) ==
    /\ state' = ApplyUpdate(c.update)
    /\ steps' = steps + 1
    /\ pc' = IF next /= "END" /\ steps + 1 >= RecursionLimit THEN "out_of_steps" ELSE next
    /\ plan' = IF IsPlan(node, c) THEN c.update.task_queue ELSE plan
    /\ plan_start' = IF IsPlan(node, c) THEN Len(state.task_history) ELSE plan_start
    /\ tasks_planned' = IF IsPlan(node, c)
                        THEN tasks_planned + Len(c.update.task_queue)
                        ELSE tasks_planned
    /\ writer_log' = IF Len(state'.task_history) > Len(state.task_history)
                     THEN Append(writer_log, node)
                     ELSE writer_log
    /\ hops' = IF state'.task_queue /= state.task_queue THEN 0
               ELSE IF IsAgentNode(node) THEN hops + 1
               ELSE hops
    /\ act_log' = IF IsAgentNode(node) THEN Append(act_log, node) ELSE act_log
    /\ unset' = unset \ DOMAIN c.update

Abort(node, next) ==
    /\ pc' = next
    /\ hops' = IF IsAgentNode(node) THEN hops + 1 ELSE hops
    /\ UNCHANGED <<state, plan, plan_start, tasks_planned, writer_log, act_log, unset,
                   steps>>

\* The runtime takes the Command c returned by `node`; `ok` tells whether the
\* oracle answer behind c had a permitted shape.  The node that runs next is
\* the successor the Command and the static edges name; with no successor the
\* run ends.  A goto that names no node of the graph is not defined by this
\* repository: the runtime either rejects the step (nothing is written) or
\* writes the update and drops the transfer, which ends the run.  A call
\* that has run RecursionLimit supersteps and still has a node to run ends
\* in "out_of_steps" (Commit).
Deliver(node, c, ok) ==
    /\ pc = node
    /\ oracle_calls' = oracle_calls + c.calls
    /\ oracle_ok' = (oracle_ok /\ (c.calls = 0 \/ ok))
    /\ stored_from' = IF node = "intent_analysis" /\ "original_user_input" \in DOMAIN c.update
                      THEN get_user_input_index
                      ELSE stored_from
    /\ planned_from' = IF node = "task_planner" /\ c.calls > 0
                       THEN Append(planned_from,
                                   [msg |-> stored_from, turn |-> Len(state.messages)])
                       ELSE planned_from
    /\ IF c.kind = "raise" THEN Abort(node, "error")
       ELSE IF c.kind = "exit" THEN Abort(node, "exit")
       ELSE IF Successors(node, c) = {} THEN Commit(node, c, "END")
       ELSE IF Successors(node, c) \subseteq Nodes
       THEN \E next \in Successors(node, c) : Commit(node, c, next)
       ELSE Abort(node, "error") \/ Commit(node, c, "END")

-----------------------------------------------------------------------------
(* The shapes the Decision Oracle interface permits *)

\* a list whose elements are strings
StringList(v) ==
    /\ "list" \in DOMAIN v
    /\ \A i \in 1..Len(v.list) : "str" \in DOMAIN v.list[i]

\* the output format the intent prompt asks for
IntentPermitted(result) ==
    /\ result /= Unparsable
    /\ DOMAIN result = {"infos", "key_modifiers"}
    /\ StringList(result.infos)
    /\ StringList(result.key_modifiers)

PlanPermitted(result) ==
    /\ result /= Unparsable
    /\ GetDict(result, "task_queue") /= <<>>
    /\ \A i \in 1..Len(result.task_queue) :
          /\ "device" \in DOMAIN result.task_queue[i]
          /\ Format(result.task_queue[i].device) \in Catalog

\* a direct result: a response string and no collaboration target
DirectShape(result) ==
    /\ result /= Unparsable
    /\ TruthyStr(Get(result, "response"))
    /\ ~TruthyStr(Get(GetDict(result, "collaboration_request"), "target"))

\* a single collaboration request to another worker of the catalog
RequestShape(w, result) ==
    /\ result /= Unparsable
    /\ LET c == GetDict(result, "collaboration_request")
       IN  /\ "request" \in DOMAIN c
           /\ Format(Get(c, "target")) \in Catalog \ {w}

WorkerPermitted(w, result) ==
    IF IsTarget(w) \/ HasPending(w)
    THEN DirectShape(result)
    ELSE DirectShape(result) \/ RequestShape(w, result)

-----------------------------------------------------------------------------
(* The state machine *)

\* the keys initial_state of run_benchmark.py supplies
InitialKeys == {"messages", "task_queue", "collaboration_request", "task_history"}

\* initial_state of run_benchmark.py; keys it leaves out read as None
InitialState ==
    [k \in StateKeys |->
        CASE k \in {"messages", "task_queue", "task_history",
                    "infos", "key_modifiers", "original_user_input"} -> <<>>
          [] k \in {"collaboration_request", "pending_task"} -> EmptyDict
          [] k = "complexity_score" -> 0
          [] OTHER -> NoneVal]

Init ==
    /\ pc = StartNode
    /\ state = InitialState
    /\ oracle_calls = 0
    /\ plan = <<>>
    /\ plan_start = 0
    /\ tasks_planned = 0
    /\ writer_log = <<>>
    /\ oracle_ok = TRUE
    /\ hops = 0
    /\ act_log = <<>>
    /\ stored_from = 0
    /\ planned_from = <<>>
    /\ unset = StateKeys \ InitialKeys
    /\ steps = 0

Human ==
    \E user_input \in UserInputs :
        Deliver("human", human(user_input), TRUE)

IntentAnalysis ==
    \E result \in IntentOutputs :
        Deliver("intent_analysis", intent_analysis(result), IntentPermitted(result))

TaskPlanner ==
    \E result \in PlanOutputs :
        Deliver("task_planner", task_planner(result), PlanPermitted(result))

Agent(w) ==
    \E result \in WorkerOutputs :
        Deliver(AgentNode(w), agent(w, result), WorkerPermitted(w, result))

\* the Session Driver starts the next run of the graph on the same thread:
\* a new graph.stream call, with its own count of supersteps
NextTurn ==
    /\ pc = "END"
    /\ Len(state.messages) < MaxTurns
    /\ pc' = StartNode
    /\ steps' = 0
    /\ UNCHANGED <<state, oracle_calls, plan, plan_start, tasks_planned,
                   writer_log, oracle_ok, hops, act_log, stored_from, planned_from,
                   unset>>

Next ==
    \/ Human
    \/ IntentAnalysis
    \/ TaskPlanner
    \/ \E w \in Catalog : Agent(w)
    \/ NextTurn

Spec == Init /\ [][Next]_vars

\* One run of the graph, as run_benchmark.py makes it (one utterance on a
\* fresh thread), on plans long enough to use up the supersteps of the call:
\* human, intent_analysis and the planning step are three supersteps, a task
\* is two (its worker, the planner) and a collaboration two more.  The oracle
\* answers are those of a permitted shape.
LongPlanLen == 12

LongPlan(n) == [i \in 1..n |-> [device |-> <<"audio_system">>, action |-> <<"a2">>]]

LongPlanOutputs ==
    {[task_queue |-> LongPlan(n)] : n \in {1, LongPlanLen \div 2, LongPlanLen - 1, LongPlanLen}}

LongTaskPlanner ==
    \E result \in LongPlanOutputs :
        Deliver("task_planner", task_planner(result), PlanPermitted(result))

PermittedAgent(w) ==
    \E result \in WorkerOutputs :
        /\ WorkerPermitted(w, result)
        /\ Deliver(AgentNode(w), agent(w, result), WorkerPermitted(w, result))

LongNext ==
    \/ Human
    \/ IntentAnalysis
    \/ LongTaskPlanner
    \/ \E w \in Catalog : PermittedAgent(w)

LongPlanSpec == Init /\ [][LongNext]_vars

\* The runtime runs the node a Command names as soon as the Command is taken,
\* and every oracle call returns: once a graph node holds control it acts.
\* Nothing obliges the Session Driver to supply an utterance.
LongPlanLiveSpec ==
    /\ LongPlanSpec
    /\ WF_vars(IntentAnalysis)
    /\ WF_vars(LongTaskPlanner)
    /\ WF_vars(\E w \in Catalog : PermittedAgent(w))

-----------------------------------------------------------------------------
(* Vocabulary of the properties *)

AgentNodes == {AgentNode(d) : d \in Catalog}

\* equality of two history entries (the result of a collaboration_request
\* entry is a dict, every other result a string or None)
SameEntry(a, b) ==
    /\ a.type = b.type
    /\ a.device = b.device
    /\ a.action_taken = b.action_taken
    /\ a.result = b.result

IsPrefix(a, b) ==
    /\ Len(a) <= Len(b)
    /\ \A i \in 1..Len(a) : SameEntry(a[i], b[i])

\* the step appends exactly one history entry, of type t
AppendsEntry(t) ==
    /\ Len(state'.task_history) = Len(state.task_history) + 1
    /\ IsPrefix(state.task_history, state'.task_history)
    /\ state'.task_history[Len(state'.task_history)].type = <<t>>

\* the worker whose node holds control is the target of the request
ActiveIsTarget == \E w \in Catalog : pc = AgentNode(w) /\ IsTarget(w)
ActiveHasPending == \E w \in Catalog : pc = AgentNode(w) /\ HasPending(w)

HasEntry(t) == \E i \in 1..Len(state.task_history) : state.task_history[i].type = <<t>>
LastEntryIs(t) ==
    /\ state.task_history /= <<>>
    /\ state.task_history[Len(state.task_history)].type = <<t>>

-----------------------------------------------------------------------------
(* C1  Queue monotonicity.  In every worker activation the task queue       *)
(* loses exactly its head if and only if the activation appends a           *)
(* task_completion entry; an activation that appends a                      *)
(* collaboration_request or collaboration_response entry leaves the queue   *)
(* unchanged; the queue changes in no other way.                            *)

C1_QueueMonotonicity_Step ==
    pc \in AgentNodes =>
     /\ (Len(state'.task_queue) + 1 = Len(state.task_queue))
           <=> AppendsEntry("task_completion")
     /\ AppendsEntry("task_completion") => state'.task_queue = Tail(state.task_queue)
     /\ (AppendsEntry("collaboration_request") \/ AppendsEntry("collaboration_response"))
           => state'.task_queue = state.task_queue
     /\ state'.task_queue /= state.task_queue => AppendsEntry("task_completion")

\* C1: a worker activation pops the queue head exactly when it appends a
\* task_completion entry, and changes the queue in no other way
C1_QueueMonotonicity == [][C1_QueueMonotonicity_Step]_vars

\* a two-task plan whose first task went through a collaboration and was popped
C1_Witness ==
    /\ Len(plan) = 2
    /\ state.task_queue = Tail(plan)
    /\ HasEntry("collaboration_response")
    /\ LastEntryIs("task_completion")

-----------------------------------------------------------------------------
(* C2  Single outstanding request.  A worker creates a CollaborationRequest *)
(* (and its PendingTask) only in a state where no request is outstanding    *)
(* and no pending task exists; an outstanding request or pending task is    *)
(* never replaced by another one, only cleared.                             *)

C2_SingleOutstandingRequest_Step ==
    /\ (\/ AppendsEntry("collaboration_request")
        \/ (TruthyDict(state'.collaboration_request)
            /\ state'.collaboration_request /= state.collaboration_request)
        \/ (TruthyDict(state'.pending_task)
            /\ state'.pending_task /= state.pending_task))
       => /\ pc \in AgentNodes
          /\ ~TruthyDict(state.collaboration_request)
          /\ ~TruthyDict(state.pending_task)
          /\ TruthyDict(state'.collaboration_request)
          /\ TruthyDict(state'.pending_task)
    /\ (TruthyDict(state.collaboration_request)
        /\ state'.collaboration_request /= state.collaboration_request)
       => state'.collaboration_request = EmptyDict
    /\ (TruthyDict(state.pending_task) /\ state'.pending_task /= state.pending_task)
       => state'.pending_task = EmptyDict

\* C2: a request and its pending task are created only when none exists, and
\* an existing one is only ever cleared
C2_SingleOutstandingRequest == [][C2_SingleOutstandingRequest_Step]_vars

\* a request is outstanding for the second task, after an earlier exchange
C2_Witness ==
    /\ TruthyDict(state.collaboration_request)
    /\ TruthyDict(state.pending_task)
    /\ LastEntryIs("collaboration_request")
    /\ HasEntry("collaboration_response")

-----------------------------------------------------------------------------
(* C3  Depth bound.  A worker activated as the target of the request never  *)
(* creates a CollaborationRequest or a PendingTask, whatever the oracle     *)
(* answers; and between two collaboration_request entries of the history    *)
(* there is always a task_completion entry.                                 *)

NoNestedRequest(h) ==
    \A i, j \in 1..Len(h) :
        (i < j /\ h[i].type = <<"collaboration_request">> /\ h[j].type = <<"collaboration_request">>)
        => \E k \in (i + 1)..(j - 1) : h[k].type = <<"task_completion">>

C3_DepthBound_Step ==
    /\ ActiveIsTarget =>
         /\ state'.collaboration_request \in {EmptyDict, state.collaboration_request}
         /\ state'.pending_task = state.pending_task
         /\ ~AppendsEntry("collaboration_request")
    /\ NoNestedRequest(state'.task_history)

\* C3: the target of a request never creates a request or a pending task,
\* and two request entries always have a completion entry between them
C3_DepthBound == [][C3_DepthBound_Step]_vars

\* the target has answered: its response is logged and the requester resumes
C3_Witness ==
    /\ LastEntryIs("collaboration_response")
    /\ ~TruthyDict(state.collaboration_request)
    /\ TruthyDict(state.pending_task)
    /\ pc = AgentNode(Format(state.pending_task.device))

-----------------------------------------------------------------------------
(* C4  History append-only.  In every step of the system the history log    *)
(* before the step is a prefix of the history log after it.                 *)

\* C4: every step leaves the old history as a prefix of the new history
C4_HistoryAppendOnly ==
    [][IsPrefix(state.task_history, state'.task_history)]_vars

\* a second turn has appended entries after those of the first turn
C4_Witness ==
    /\ Len(state.messages) = 2
    /\ plan_start > 0
    /\ Len(state.task_history) > plan_start

-----------------------------------------------------------------------------
(* C5  Round trip.  When the owner R of the head task requests              *)
(* collaboration with a worker T of the catalog, the history gains three    *)
(* consecutive entries for that task: collaboration_request written by R,   *)
(* collaboration_response written by T (answering R's request text),        *)
(* task_completion written by R (for the task's action).  The request is    *)
(* written by the owner of the queue head and leaves the queue alone; the   *)
(* completion pops the head once and writes R's result slot.                *)

RoundTripShape(h, wl) ==
    /\ \A i \in 1..Len(h) :
          (h[i].type = <<"collaboration_request">> /\ Format(h[i].result.target) \in Catalog) =>
             /\ i + 1 <= Len(h) =>
                   /\ h[i + 1].type = <<"collaboration_response">>
                   /\ wl[i + 1] = AgentNode(Format(h[i].result.target))
                   /\ h[i + 1].action_taken = h[i].result.request
             /\ i + 2 <= Len(h) =>
                   /\ h[i + 2].type = <<"task_completion">>
                   /\ wl[i + 2] = wl[i]
                   /\ h[i + 2].action_taken = h[i].action_taken
    /\ \A j \in 1..Len(h) :
          h[j].type = <<"collaboration_response">> =>
             j > 1 /\ h[j - 1].type = <<"collaboration_request">>

\* the same shape for every request, whatever its target
RoundTripShapeAsClaimed(h, wl) ==
    \A i \in 1..Len(h) :
        h[i].type = <<"collaboration_request">> =>
           /\ i + 1 <= Len(h) =>
                 /\ h[i + 1].type = <<"collaboration_response">>
                 /\ wl[i + 1] = AgentNode(Format(h[i].result.target))
                 /\ h[i + 1].action_taken = h[i].result.request
           /\ i + 2 <= Len(h) =>
                 /\ h[i + 2].type = <<"task_completion">>
                 /\ wl[i + 2] = wl[i]
                 /\ h[i + 2].action_taken = h[i].action_taken

\* C5 as claimed: every collaboration_request entry, whatever target it names,
\* is followed by the target's collaboration_response and then by the
\* requester's task_completion
C5_RoundTripAsClaimed ==
    [][RoundTripShapeAsClaimed(state'.task_history, writer_log')]_vars

C5_RoundTrip_Step ==
    /\ RoundTripShape(state'.task_history, writer_log')
    /\ AppendsEntry("collaboration_request") =>
          /\ state.task_queue /= <<>>
          /\ pc = AgentNode(Format(state.task_queue[1].device))
          /\ state'.task_history[Len(state'.task_history)].action_taken
                = state.task_queue[1].action
          /\ state'.task_queue = state.task_queue
    /\ (ActiveHasPending /\ AppendsEntry("task_completion")) =>
          /\ pc = AgentNode(Format(state.pending_task.device))
          /\ state.task_queue /= <<>>
          /\ state'.task_queue = Tail(state.task_queue)
          /\ state'[ResultKey(Format(state.pending_task.device))]
                = state'.task_history[Len(state'.task_history)].result

\* C5 for the targets of the catalog: a request to a catalog worker is followed
\* by that worker's response and then by the requester's completion, which pops
\* the head once and writes the requester's result slot
C5_RoundTrip == [][C5_RoundTrip_Step]_vars

\* audio_system asked clock, clock answered, audio_system completed its task
C5_Witness ==
    /\ Len(state.task_history) = 3
    /\ state.task_history[1].type = <<"collaboration_request">>
    /\ state.task_history[1].result.target = <<"clock">>
    /\ state.task_history[2].type = <<"collaboration_response">>
    /\ state.task_history[3].type = <<"task_completion">>
    /\ writer_log = <<"audio_system_agent", "clock_agent", "audio_system_agent">>
    /\ state.task_queue = Tail(plan)
    /\ state["audio_system_result"] = <<"ok">>

-----------------------------------------------------------------------------
(* C6  Ordering guarantee.  The task_completion entries written since the   *)
(* plan was installed are, by (device, action) and in order, the first      *)
(* tasks of the planned queue, and the task queue is the rest of the plan:  *)
(* a task is dispatched only when every task before it has been completed   *)
(* and popped.                                                              *)

Completions ==
    SelectSeq(SubSeq(state.task_history, plan_start + 1, Len(state.task_history)),
              LAMBDA e : e.type = <<"task_completion">>)

\* C6: the completions since the plan was installed equal, by (device, action)
\* and in order, the first tasks of the plan, and the queue is the rest of it
C6_OrderingAsClaimed ==
    /\ Len(Completions) <= Len(plan)
    /\ \A k \in 1..Len(Completions) :
          /\ k <= Len(plan)
          /\ Completions[k].device = plan[k].device
          /\ Completions[k].action_taken = plan[k].action
    /\ state.task_queue = SubSeq(plan, Len(Completions) + 1, Len(plan))
    /\ pc \in AgentNodes =>
          /\ state.task_queue /= <<>>
          /\ (pc = AgentNode(Format(state.task_queue[1].device))
              \/ TruthyDict(state.pending_task))

-----------------------------------------------------------------------------------------------------------------------------------------------------
(* C7  Turn termination.  Once a task queue is installed, and as long as    *)
(* every oracle answer has a permitted shape, the run reaches the planner's *)
(* Terminal step with an empty queue; after the run has ended no node acts  *)
(* until the Session Driver starts the next turn.                           *)

Terminal == pc = "END" /\ state.task_queue = <<>>

\* C7: an installed queue, however long, leads to the Terminal step unless an
\* oracle answer leaves the permitted shapes, and after END only the next turn
\* can start
C7_TurnTerminationAsClaimed ==
    /\ (state.task_queue /= <<>> /\ oracle_ok) ~> (Terminal \/ ~oracle_ok)
    /\ [][pc = "END" => pc' = StartNode]_vars

-----
(* C8  Multi-task final state.  When a turn reaches Terminal the queue is   *)
(* empty and the result slot of every device that owned a planned task is   *)
(* populated; a completion writes no result slot but its worker's own.      *)

C8_FinalStateAsClaimed_Step ==
    /\ (pc' = "END" /\ state'.task_queue = <<>>) =>
          \A k \in 1..Len(plan') :
              TruthyStr(Get(state', ResultKey(Format(plan'[k].device))))
    /\ \A w \in Catalog :
          (pc = AgentNode(w) /\ AppendsEntry("task_completion")) =>
              \A d \in Catalog \ {w} : state'[ResultKey(d)] = state[ResultKey(d)]

\* C8: at Terminal every device of the plan has a populated result slot, and
\* a completion writes only its own worker's result slot
C8_FinalStateAsClaimed == [][C8_FinalStateAsClaimed_Step]_vars

-----------------------------------------------------------------------------
(* C9  Quit.  An input that is q, quit or exit once stripped and            *)
(* lower-cased ends the session at the human step: no oracle call, no node  *)
(* activation afterwards, and the state (history, queue, request, pending   *)
(* task) is left as it was.  No other input ends the session there.         *)

\* 'q', ' Quit\r\n', 'ExiT', '\x0bexit\xa0'
C9_QuitInputs ==
    {<<113>>, <<32, 81, 117, 105, 116, 13, 10>>, <<69, 120, 105, 84>>,
     <<11, 101, 120, 105, 116, 160>>}

C9_Quit_Step ==
    /\ pc = "human" =>
          /\ \A u \in C9_QuitInputs : human(u).kind = "exit"
          /\ pc' = "exit" =>
                UNCHANGED <<state, oracle_calls, plan, plan_start, tasks_planned,
                            writer_log, oracle_ok, hops, act_log, stored_from,
                            planned_from, unset>>
          /\ pc' /= "exit" =>
                /\ pc' = "intent_analysis"
                /\ Len(state'.messages) = Len(state.messages) + 1
                /\ state'.messages[Len(state'.messages)].content \notin C9_QuitInputs
    /\ pc' = "exit" => pc = "human"
    /\ pc /= "exit"

\* C9: a quit input ends the session at the human step with nothing written,
\* no oracle call and no later step; other inputs go on to intent_analysis
C9_Quit == [][C9_Quit_Step]_vars

\* the session was quit in a later turn, after tasks had run
C9_Witness ==
    /\ pc = "exit"
    /\ Len(state.task_history) > 0
    /\ Len(state.messages) = 1

-----------------------------------------------------------------------------------------------------------------------------------------------------
\* none of the three branch conditions of worker w holds
NoBranch(w) == ~IsTarget(w) /\ ~HasPending(w) /\ ~OwnsHead(w)

-----
(* C11  Malformed oracle output.  When the answer to a worker is neither a  *)
(* valid direct result nor a valid collaboration request, the turn fails:   *)
(* no task_completion entry is appended, the queue head is not popped and   *)
(* no result slot is written.                                               *)

\* the step is a worker activation whose oracle answer had no permitted shape
MalformedAnswerStep == pc \in AgentNodes /\ oracle_ok /\ ~oracle_ok'

C11_NoFabricatedResultAsClaimed_Step ==
    MalformedAnswerStep =>
        /\ pc' = "error"
        /\ ~AppendsEntry("task_completion")
        /\ state'.task_queue = state.task_queue
        /\ \A d \in Catalog : state'[ResultKey(d)] = state[ResultKey(d)]

\* C11: a worker activation whose oracle answer has no permitted shape fails
\* the turn, appends no task_completion entry, pops nothing and writes no
\* result slot
C11_NoFabricatedResultAsClaimed == [][C11_NoFabricatedResultAsClaimed_Step]_vars

-----------------------------------------------------------------------------
(* C12  Known workers only.  The planner transfers control only to the      *)
(* catalog worker that owns the queue head, a requesting worker only to a   *)
(* catalog worker; a planned task or a request that names a device outside  *)
(* the catalog fails the turn and leaves no history entry for that device.  *)

RequestTargetsKnown(h) ==
    \A i \in 1..Len(h) :
        h[i].type = <<"collaboration_request">> => Format(h[i].result.target) \in Catalog

C12_KnownWorkersAsClaimed_Step ==
    /\ (pc = "task_planner" /\ pc' /= "error") =>
          \/ state'.task_queue = <<>> /\ pc' = "END"
          \/ /\ state'.task_queue /= <<>>
             /\ Format(Get(state'.task_queue[1], "device")) \in Catalog
             /\ pc' = AgentNode(Format(state'.task_queue[1].device))
    /\ (pc \in AgentNodes /\ AppendsEntry("collaboration_request")) =>
          /\ Format(state'.collaboration_request.target) \in Catalog
          /\ pc' = AgentNode(Format(state'.collaboration_request.target))
    /\ RequestTargetsKnown(state'.task_history)

\* C12: the planner and a requesting worker transfer control only to catalog
\* workers; a device outside the catalog fails the turn and leaves no entry
C12_KnownWorkersAsClaimed == [][C12_KnownWorkersAsClaimed_Step]_vars

-----------------------------------------------------------------------------
(* C13  Hop bound.  A task is completed by its first worker activation      *)
(* (direct result) or by its third (request, the target's answer, the       *)
(* requester's resume); the request is the task's first activation, the     *)
(* answer its second, and no task is given a fourth.                        *)

C13_HopBoundAsClaimed_Step ==
    pc \in AgentNodes =>
        /\ hops <= 2
        /\ AppendsEntry("task_completion") => hops + 1 \in {1, 3}
        /\ AppendsEntry("collaboration_request") => hops = 0
        /\ AppendsEntry("collaboration_response") => hops = 1

\* C13: every task is completed in exactly 1 or exactly 3 worker activations
\* (request, answer, resume), and no task takes more than 3
C13_HopBoundAsClaimed == [][C13_HopBoundAsClaimed_Step]_vars

-----------------------------------------------------------------------------
(* C14  Branch conditions of the activated worker W: (1) the request's      *)
(* target is W, (2) a PendingTask with device W exists, (3) the queue is    *)
(* non-empty and its head's device is W.                                    *)

BranchCount(w) ==
    (IF IsTarget(w) THEN 1 ELSE 0)
    + (IF HasPending(w) THEN 1 ELSE 0)
    + (IF OwnsHead(w) THEN 1 ELSE 0)

\* C14 as claimed: at most one of the three branch conditions holds for the
\* activated worker; stated for the runs in which every oracle answer so far
\* had a permitted shape, where it already fails
C14_MutualExclusionAsClaimed ==
    oracle_ok => \A w \in Catalog : pc = AgentNode(w) => BranchCount(w) <= 1

\* C14: for the activated worker W, (2) never holds without (3), and (1)
\* holds together with (2) or (3) only when W is the requester of the request
\* whose target it is
C14_BranchOverlap ==
    \A w \in Catalog :
        pc = AgentNode(w) =>
            /\ HasPending(w) => OwnsHead(w)
            /\ (IsTarget(w) /\ (HasPending(w) \/ OwnsHead(w)))
                  => Get(state.collaboration_request, "requester") = <<w>>

\* audio_system resumes after clock's answer: it has the pending task and owns
\* the queue head, and it is the target of no request
C14_Witness ==
    /\ pc = "audio_system_agent"
    /\ HasPending("audio_system")
    /\ OwnsHead("audio_system")
    /\ ~IsTarget("audio_system")
    /\ state["clock_response"] = <<"ok">>
    /\ oracle_ok

-----------------------------------------------------------------------------
(* C15  Who changes the task queue.                                         *)

\* C15 as claimed: every worker activation leaves the task queue unchanged;
\* stated for the activations whose oracle answer had a permitted shape,
\* where it already fails
C15_QueueOwnershipAsClaimed ==
    [][(pc \in AgentNodes /\ oracle_ok') => state'.task_queue = state.task_queue]_vars

C15_QueueChanges_Step ==
    state'.task_queue /= state.task_queue =>
        \/ /\ pc = "task_planner"
           /\ state.task_queue = <<>>
           /\ state.original_user_input /= <<>>
           /\ state'.original_user_input = <<>>
           /\ state'.task_queue = plan'
        \/ /\ pc \in AgentNodes
           /\ AppendsEntry("task_completion")
           /\ state'.task_queue = Tail(state.task_queue)

\* C15: the queue changes only when a Plan step of the planner installs a new
\* queue in place of an empty one, or when a worker activation that appends a
\* task_completion entry removes the head; the planner's Resume and Terminal
\* steps and every other activation leave it unchanged
C15_QueueChanges == [][C15_QueueChanges_Step]_vars

\* the first task of a two-task plan was completed directly and popped by its
\* worker, and the planner is about to resume with the rest
C15_Witness ==
    /\ pc = "task_planner"
    /\ Len(plan) = 2
    /\ state.task_queue = Tail(plan)
    /\ Len(state.task_history) = plan_start + 1
    /\ oracle_ok

-----------------------------------------------------------------------------
(* C16  Response slots.  A _response slot is written only by its own worker *)
(* in the inbound branch, and only while it is empty; it is cleared only by *)
(* the resume branch of the worker that waited for it; whenever there is no *)
(* PendingTask, and at every planner activation and end of a run, all eight *)
(* _response slots are empty.                                               *)

ResponseSlotsEmpty(st) == \A d \in Catalog : st[ResponseKey(d)] = NoneVal

C16_ResponseSlots_Step ==
    /\ \A d \in Catalog :
          state'[ResponseKey(d)] /= state[ResponseKey(d)] =>
             \/ /\ pc = AgentNode(d)
                /\ IsTarget(d)
                /\ state[ResponseKey(d)] = NoneVal
                /\ AppendsEntry("collaboration_response")
             \/ /\ \E r \in Catalog :
                      /\ pc = AgentNode(r)
                      /\ ~IsTarget(r)
                      /\ HasPending(r)
                      /\ state.pending_task.waiting_for = <<d>>
                /\ state'[ResponseKey(d)] = NoneVal
                /\ AppendsEntry("task_completion")
    /\ (~TruthyDict(state'.pending_task) \/ pc' \in {"task_planner", "END"})
          => ResponseSlotsEmpty(state')

\* C16: a response slot is written only by the target's inbound branch and
\* cleared only by the requester's resume branch, and with no PendingTask (and
\* at every planner activation and at Terminal) all response slots are empty
C16_ResponseSlots == [][C16_ResponseSlots_Step]_vars

\* clock's answer "ok" was written to its slot, read by audio_system's resume
\* and cleared: the planner holds control with every response slot empty
C16_Witness ==
    /\ pc = "task_planner"
    /\ Len(state.task_history) >= 3
    /\ state.task_history[Len(state.task_history) - 1].type = <<"collaboration_response">>
    /\ state.task_history[Len(state.task_history) - 1].result = <<"ok">>
    /\ writer_log[Len(writer_log) - 1] = "clock_agent"
    /\ writer_log[Len(writer_log)] = "audio_system_agent"
    /\ ~TruthyDict(state.pending_task)
    /\ ResponseSlotsEmpty(state)

-----------------------------------------------------------------------------
(* C17  Single live component.  One node holds control at a time; whatever  *)
(* the oracle answers, the Command of the node that holds control and the   *)
(* node's static edges name at most one node to run next; the planner hands *)
(* control to one worker or ends the run, a worker hands it to one worker   *)
(* or to the planner.                                                       *)

SingleSuccessor(node, c) == Cardinality(Successors(node, c)) <= 1

C17_SingleLiveComponent_Step ==
    /\ pc = "human" =>
          \A u \in UserInputs : SingleSuccessor(pc, human(u))
    /\ pc = "intent_analysis" =>
          \A result \in IntentOutputs : SingleSuccessor(pc, intent_analysis(result))
    /\ pc = "task_planner" =>
          /\ \A result \in PlanOutputs : SingleSuccessor(pc, task_planner(result))
          /\ pc' \in AgentNodes \cup {"END", "error"}
    /\ \A w \in Catalog :
          pc = AgentNode(w) =>
             /\ \A result \in WorkerOutputs : SingleSuccessor(pc, agent(w, result))
             /\ pc' \in AgentNodes \cup {"task_planner", "END", "error"}

\* C17: every activation names at most one successor, so exactly one node
\* holds control at every step and two workers are never active together
C17_SingleLiveComponent == [][C17_SingleLiveComponent_Step]_vars

\* control went from the planner to audio_system and from there to clock
C17_Witness ==
    /\ pc = "clock_agent"
    /\ IsTarget("clock")
    /\ HasPending("audio_system")
    /\ act_log = <<"audio_system_agent">>

-----------------------------------------------------------------------------
(* C18  History order is activation order.  Every worker activation whose   *)
(* Command is applied appends exactly one entry at the end of the history,  *)
(* and no other step writes the history: the history is as long as the      *)
(* sequence of worker activations, and its i-th entry was appended by the   *)
(* i-th activated worker.                                                   *)

EntryTypes == {"collaboration_request", "collaboration_response", "task_completion"}

C18_HistoryIsActivationOrder_Step ==
    /\ (pc \in AgentNodes /\ act_log' /= act_log) =>
          /\ \E t \in EntryTypes : AppendsEntry(t)
          /\ act_log' = Append(act_log, pc)
    /\ act_log' = act_log => Len(state'.task_history) = Len(state.task_history)
    /\ Len(state'.task_history) = Len(act_log')
    /\ writer_log' = act_log'

\* C18: each worker activation appends exactly one entry at the end of the
\* history, so the i-th entry was written by the i-th activated worker
C18_HistoryIsActivationOrder == [][C18_HistoryIsActivationOrder_Step]_vars

\* four activations (audio_system asks, clock answers, audio_system completes,
\* clock completes its own task) have left four entries
C18_Witness ==
    /\ act_log = <<"audio_system_agent", "clock_agent", "audio_system_agent", "clock_agent">>
    /\ Len(state.task_history) = 4
    /\ state.task_history[2].type = <<"collaboration_response">>
    /\ state.task_history[4].type = <<"task_completion">>
    /\ state.task_history[4].device = <<"clock">>

-----------------------------------------------------------------------------
(* C19  No self-collaboration.  An outstanding CollaborationRequest has a   *)
(* target different from its requester, a PendingTask waits for a worker    *)
(* other than its own device, and no worker transfers control to itself.    *)

NoSelfCollaboration(st) ==
    /\ TruthyDict(st.collaboration_request) =>
          Get(st.collaboration_request, "target")
             /= Get(st.collaboration_request, "requester")
    /\ TruthyDict(st.pending_task) =>
          Get(st.pending_task, "waiting_for") /= Get(st.pending_task, "device")

C19_NoSelfCollaborationAsClaimed_Step ==
    /\ NoSelfCollaboration(state')
    /\ pc \in AgentNodes => pc' /= pc

\* C19: a request's target differs from its requester, a pending task's
\* waiting_for differs from its device, and a worker never hands control to
\* itself
C19_NoSelfCollaborationAsClaimed == [][C19_NoSelfCollaborationAsClaimed_Step]_vars

-----------------------------------------------------------------------------
(* C20  No partial update on failure.  A worker or planner activation whose *)
(* oracle output cannot be read raises, and an activation that raises       *)
(* changes nothing: the history, the task queue, the CollaborationRequest,  *)
(* the PendingTask and every response and result slot keep their values.    *)

\* the node that holds control is about to call the oracle
CallsOracle ==
    \/ \E w \in Catalog : pc = AgentNode(w) /\ ~NoBranch(w)
    \/ pc = "task_planner" /\ state.task_queue = <<>> /\ state.original_user_input /= <<>>

\* the Command of the node that holds control when its oracle output is unreadable
OnUnreadable ==
    IF pc = "task_planner" THEN task_planner(Unparsable)
    ELSE agent(CHOOSE w \in Catalog : pc = AgentNode(w), Unparsable)

FrameKept ==
    /\ Len(state'.task_history) = Len(state.task_history)
    /\ IsPrefix(state.task_history, state'.task_history)
    /\ state'.task_queue = state.task_queue
    /\ state'.collaboration_request = state.collaboration_request
    /\ state'.pending_task = state.pending_task
    /\ \A d \in Catalog :
          /\ state'[ResponseKey(d)] = state[ResponseKey(d)]
          /\ state'[ResultKey(d)] = state[ResultKey(d)]

C20_NoPartialUpdate_Step ==
    /\ CallsOracle =>
          /\ OnUnreadable.kind = "raise"
          /\ OnUnreadable.update = EmptyDict
    /\ (pc \in AgentNodes \cup {"task_planner"} /\ pc' = "error") => FrameKept

\* C20: unreadable oracle output makes the activation raise, and a worker or
\* planner activation that fails leaves the history, the queue, the request,
\* the pending task and all slots as they were
C20_NoPartialUpdate == [][C20_NoPartialUpdate_Step]_vars

\* clock's oracle call failed while it was answering audio_system: four calls
\* were made and only audio_system's request is in the state
C20_Witness ==
    /\ pc = "error"
    /\ oracle_calls = 4
    /\ act_log = <<"audio_system_agent">>
    /\ Len(state.task_history) = 1
    /\ IsTarget("clock")
    /\ HasPending("audio_system")
    /\ ResponseSlotsEmpty(state)

-----------------------------------------------------------------------------
(* Vocabulary of the branch claims *)

\* worker w holds control and will take the inbound branch / the resume branch
InboundActive(w) == pc = AgentNode(w) /\ IsTarget(w)
ResumeActive(w) == pc = AgentNode(w) /\ ~IsTarget(w) /\ HasPending(w)

LastOf(h) == h[Len(h)]

-----------------------------------------------------------------------------
(* C21  A fresh utterance replaces the queue.  When the planner is          *)
(* activated with a fresh utterance stored, it installs the plan for that   *)
(* utterance (or fails): it dispatches no task that was already queued.     *)

C21_FreshUtteranceReplacesQueueAsClaimed_Step ==
    (pc = "task_planner" /\ state.original_user_input /= <<>> /\ pc' /= "error") =>
        /\ state'.original_user_input = <<>>
        /\ state'.task_queue = plan'
        /\ plan_start' = Len(state.task_history)

\* C21: a planner activation that finds a fresh utterance replaces the queue
\* by the plan for it before any worker is dispatched; no task queued earlier
\* is dispatched after the utterance arrived
C21_FreshUtteranceReplacesQueueAsClaimed ==
    [][C21_FreshUtteranceReplacesQueueAsClaimed_Step]_vars

-----------------------------------------------------------------------------
(* C22  Resume always completes.  An activation in the resume branch that   *)
(* returns creates no CollaborationRequest: after it the PendingTask is     *)
(* absent, the request is empty, the slot {waiting_for}_response is empty,  *)
(* a task_completion entry with the pending task's action has been          *)
(* appended, and the planner holds control.                                 *)

C22_ResumeCompletes_Step ==
    \A w \in Catalog :
        (ResumeActive(w) /\ pc' /= "error") =>
            /\ state'.pending_task = EmptyDict
            /\ state'.collaboration_request = EmptyDict
            /\ Get(state', ResponseKey(Format(state.pending_task.waiting_for))) = NoneVal
            /\ AppendsEntry("task_completion")
            /\ LastOf(state'.task_history).action_taken = state.pending_task.action
            /\ pc' = "task_planner"

\* C22: a resume activation never creates a request; it clears the pending
\* task, the request and the consumed response slot, appends the completion of
\* the pending task's action and hands control to the planner
C22_ResumeCompletes == [][C22_ResumeCompletes_Step]_vars

\* audio_system resumed after clock's answer and its oracle gave no direct
\* result (an empty answer or a further request): the task is completed all
\* the same and nothing is pending
C22_Witness ==
    /\ pc = "task_planner"
    /\ writer_log = <<"audio_system_agent", "clock_agent", "audio_system_agent">>
    /\ LastOf(state.task_history).type = <<"task_completion">>
    /\ LastOf(state.task_history).action_taken = <<"a2">>
    /\ ~oracle_ok
    /\ state.pending_task = EmptyDict
    /\ state.collaboration_request = EmptyDict
    /\ state["audio_system_result"] = NoneVal

-----------------------------------------------------------------------------
(* C23  Frame of the inbound branch.  An activation of target T in the      *)
(* inbound branch that returns writes T_response, appends one               *)
(* collaboration_response entry, empties the CollaborationRequest and hands *)
(* control to the recorded requester; the task queue, the PendingTask,      *)
(* every _result slot and every other _response slot are unchanged.         *)

C23_InboundFrame_Step ==
    \A w \in Catalog :
        (InboundActive(w) /\ pc' /= "error") =>
            /\ AppendsEntry("collaboration_response")
            /\ state'[ResponseKey(w)] = LastOf(state'.task_history).result
            /\ LastOf(state'.task_history).action_taken = state.collaboration_request.request
            /\ state'.collaboration_request = EmptyDict
            /\ pc' = AgentNode(Format(state.collaboration_request.requester))
            /\ state'.task_queue = state.task_queue
            /\ state'.pending_task = state.pending_task
            /\ \A d \in Catalog : state'[ResultKey(d)] = state[ResultKey(d)]
            /\ \A d \in Catalog \ {w} : state'[ResponseKey(d)] = state[ResponseKey(d)]

\* C23: the inbound branch writes the target's response slot, appends one
\* collaboration_response entry, empties the request and returns control to
\* the requester, and changes nothing else
C23_InboundFrame == [][C23_InboundFrame_Step]_vars

\* clock has answered audio_system while a second task waits in the queue:
\* the queue and the pending task are as audio_system left them
C23_Witness ==
    /\ pc = "audio_system_agent"
    /\ writer_log = <<"audio_system_agent", "clock_agent">>
    /\ state["clock_response"] = <<"ok">>
    /\ state.collaboration_request = EmptyDict
    /\ Len(plan) = 2
    /\ state.task_queue = plan
    /\ state.pending_task = [device |-> <<"audio_system">>, action |-> <<"a2">>, waiting_for |-> <<"clock">>]

-----------------------------------------------------------------------------
(* C24  Request and pending task.  Whenever a CollaborationRequest is       *)
(* outstanding a PendingTask exists with device = requester and             *)
(* waiting_for = target; both are created by the same activation, after     *)
(* which the target holds control.                                          *)

RequestMatchesPending(st) ==
    TruthyDict(st.collaboration_request) =>
        /\ TruthyDict(st.pending_task)
        /\ Get(st.pending_task, "device") = Get(st.collaboration_request, "requester")
        /\ Get(st.pending_task, "waiting_for") = Get(st.collaboration_request, "target")

C24_RequestPendingAsClaimed_Step ==
    /\ RequestMatchesPending(state')
    /\ (~TruthyDict(state.collaboration_request) /\ TruthyDict(state'.collaboration_request)) =>
          /\ pc = AgentNode(Format(state'.collaboration_request.requester))
          /\ ~TruthyDict(state.pending_task)
          /\ TruthyDict(state'.pending_task)
          /\ pc' = AgentNode(Format(state'.collaboration_request.target))

\* C24: an outstanding request has a pending task with device = requester and
\* waiting_for = target; both are created in one activation, which hands
\* control to the target
C24_RequestPendingAsClaimed == [][C24_RequestPendingAsClaimed_Step]_vars

-----------------------------------------------------------------------------
(* C25  The pending task is the queue head.  Whenever a PendingTask exists  *)
(* the queue is non-empty and its head has the PendingTask's device and     *)
(* action; the pop of the resume branch removes that task.                  *)

PendingIsHead(st) ==
    TruthyDict(st.pending_task) =>
        /\ st.task_queue /= <<>>
        /\ Get(st.task_queue[1], "device") = Get(st.pending_task, "device")
        /\ Get(st.task_queue[1], "action") = Get(st.pending_task, "action")

C25_PendingIsHead_Step ==
    /\ PendingIsHead(state')
    /\ \A w \in Catalog :
          (ResumeActive(w) /\ pc' /= "error") =>
             /\ state'.task_queue = Tail(state.task_queue)
             /\ LastOf(state'.task_history).action_taken = state.task_queue[1].action
             /\ state.task_queue[1].device = <<w>>

\* C25: a pending task has the device and the action of the queue head, so the
\* resume branch pops exactly the task that was suspended
C25_PendingIsHead == [][C25_PendingIsHead_Step]_vars

\* audio_system's task is suspended at the head of a two-task queue while
\* clock, the owner of the second task, answers its request
C25_Witness ==
    /\ pc = "clock_agent"
    /\ Len(state.task_queue) = 2
    /\ state.task_queue[1] = [device |-> <<"audio_system">>, action |-> <<"a2">>]
    /\ state.task_queue[2].device = <<"clock">>
    /\ state.pending_task = [device |-> <<"audio_system">>, action |-> <<"a2">>, waiting_for |-> <<"clock">>]
    /\ hops = 1

-----------------------------------------------------------------------------
(* C26  Clean hand-back.  At every activation of the planner no             *)
(* CollaborationRequest is outstanding and no PendingTask exists.           *)

\* C26: whenever task_planner holds control there is no outstanding request
\* and no pending task
C26_CleanHandBackAsClaimed ==
    pc = "task_planner" =>
        /\ ~TruthyDict(state.collaboration_request)
        /\ ~TruthyDict(state.pending_task)

-----------------------------------------------------------------------------
(* C27  Frame of the planner's Resume.  Activated with a non-empty queue,   *)
(* the planner hands control to the worker of the head task's device,       *)
(* makes no oracle call and changes nothing: queue, history, request,       *)
(* pending task and all slots are as before.                                *)

C27_ResumeFrameAsClaimed_Step ==
    (pc = "task_planner" /\ state.task_queue /= <<>>) =>
        /\ pc' = AgentNode(Format(state.task_queue[1].device))
        /\ oracle_calls' = oracle_calls
        /\ FrameKept

\* C27: with a non-empty queue the planner dispatches the worker named by the
\* head task's device, calls no oracle and leaves the state unchanged
C27_ResumeFrameAsClaimed == [][C27_ResumeFrameAsClaimed_Step]_vars

-----------------------------------------------------------------------------
(* C28  Branch priority.  A worker that is the target of the request takes  *)
(* the inbound branch even when it has a PendingTask or owns the queue      *)
(* head, and does not pop the queue; a worker with a PendingTask and no     *)
(* inbound request takes the resume branch, not the new-task branch.        *)

C28_BranchPriority_Step ==
    \A w \in Catalog :
        /\ (InboundActive(w) /\ pc' /= "error") =>
              /\ AppendsEntry("collaboration_response")
              /\ state'.task_queue = state.task_queue
              /\ state'.pending_task = state.pending_task
        /\ (ResumeActive(w) /\ pc' /= "error") =>
              /\ AppendsEntry("task_completion")
              /\ state'.pending_task = EmptyDict
              /\ state'.task_queue = Tail(state.task_queue)
              /\ pc' = "task_planner"

\* C28: the target of the request always answers it first and pops nothing;
\* the owner of a pending task always resumes it rather than starting the
\* head task afresh
C28_BranchPriority == [][C28_BranchPriority_Step]_vars

\* clock was the target of its own request while it owned the queue head and
\* had the pending task: it answered, and the queue and pending task are kept
C28_Witness ==
    /\ pc = "clock_agent"
    /\ writer_log = <<"clock_agent", "clock_agent">>
    /\ LastOf(state.task_history).type = <<"collaboration_response">>
    /\ state.task_queue = plan
    /\ HasPending("clock")
    /\ OwnsHead("clock")
    /\ ~IsTarget("clock")

-----------------------------------------------------------------------------
(* C29  The answer read by the resume branch.  The value a requester reads  *)
(* from {waiting_for}_response when it resumes is the answer the target     *)
(* wrote in the activation just before: it is not empty and it is the       *)
(* result of the last history entry, a collaboration_response by the target.*)

\* state.get(response_key) of the resume branch
collaborator_response == Get(state, ResponseKey(Format(Get(state.pending_task, "waiting_for"))))

\* C29: at every resume the response slot read holds the non-empty answer the
\* awaited target wrote in the immediately preceding activation
C29_ResumeReadsAnswerAsClaimed ==
    \A w \in Catalog :
        ResumeActive(w) =>
            /\ TruthyStr(collaborator_response)
            /\ LastEntryIs("collaboration_response")
            /\ LastOf(state.task_history).result = collaborator_response
            /\ LastOf(writer_log) = AgentNode(Format(state.pending_task.waiting_for))

-----------------------------------------------------------------------------
(* C30  Some branch condition holds at dispatch.  Whenever a worker holds   *)
(* control (handed over by the planner, by a requester or by a target) at   *)
(* least one of its three branch conditions holds.                          *)

\* C30: no worker receives control with all three branch conditions false
C30_SomeBranchAtDispatch ==
    \A w \in Catalog : pc = AgentNode(w) => ~NoBranch(w)

\* the planner has resumed the queue after a collaboration and dispatched
\* clock, which owns the new head and is neither target nor suspended
C30_Witness ==
    /\ pc = "clock_agent"
    /\ Len(state.task_history) = 3
    /\ OwnsHead("clock")
    /\ ~IsTarget("clock")
    /\ ~HasPending("clock")
    /\ hops = 0

-----------------------------------------------------------------------------
(* C31  Plan at most once per utterance.  The Plan step clears the stored   *)
(* utterance as it installs the queue, so the planning oracle is called     *)
(* once for an utterance; with the queue empty again the planner takes the  *)
(* Terminal step and does not plan that utterance a second time.            *)

PlanActive ==
    pc = "task_planner" /\ state.task_queue = <<>> /\ state.original_user_input /= <<>>
TerminalActive ==
    pc = "task_planner" /\ state.task_queue = <<>> /\ state.original_user_input = <<>>

\* no utterance (message) was planned from twice
PlannedOnce(log) == \A i, j \in 1..Len(log) : log[i].msg = log[j].msg => i = j

C31_PlanOncePerUtteranceAsClaimed_Step ==
    /\ (PlanActive /\ pc' /= "error") =>
          /\ state'.original_user_input = <<>>
          /\ oracle_calls' = oracle_calls + 1
    /\ TerminalActive => (pc' = "END" /\ oracle_calls' = oracle_calls)
    /\ PlannedOnce(planned_from')

\* C31: the Plan step clears the stored utterance, the Terminal step plans
\* nothing, and the planning oracle is never called twice for one utterance
C31_PlanOncePerUtteranceAsClaimed == [][C31_PlanOncePerUtteranceAsClaimed_Step]_vars

-----------------------------------------------------------------------------
(* C32  Empty plan.  When the planning oracle returns an empty task list or *)
(* no task list the Plan step fails before it installs anything: no worker  *)
(* is dispatched, queue and history stay as they were and the stored        *)
(* utterance is not cleared.                                                *)

\* {"task_queue": []} and an answer without a task_queue key
EmptyPlans == {[task_queue |-> <<>>], EmptyDict}

C32_EmptyPlanFails_Step ==
    PlanActive =>
        /\ EmptyPlans \subseteq PlanOutputs
        /\ \A result \in EmptyPlans : task_planner(result) = Raise(1)
        /\ pc' = "error" =>
              /\ state' = state
              /\ plan' = plan
              /\ act_log' = act_log

\* C32: an empty or absent task list makes the Plan step raise after its
\* oracle call; the failed step writes nothing and dispatches no worker
C32_EmptyPlanFails == [][C32_EmptyPlanFails_Step]_vars

\* the only planning call of the session failed in the Plan step: nothing is
\* installed and the utterance is still stored
C32_Witness ==
    /\ pc = "error"
    /\ Len(planned_from) = 1
    /\ oracle_calls = 2
    /\ ~oracle_ok
    /\ state.original_user_input /= <<>>
    /\ state.task_queue = <<>>
    /\ state.task_history = <<>>
    /\ plan = <<>>

-----------------------------------------------------------------------------
(* C33  History entries name their writer.  The device field of every       *)
(* history entry is the catalog identity of the worker that appended it,    *)
(* the string used for that worker in task devices, requester / target and  *)
(* PendingTask device.                                                      *)

\* C33: every history entry's device is a catalog device, and it is the
\* device of the agent that appended the entry
C33_EntriesNameWriterAsClaimed ==
    \A i \in 1..Len(state.task_history) :
        /\ Format(state.task_history[i].device) \in Catalog
        /\ writer_log[i] = AgentNode(Format(state.task_history[i].device))

-----------------------------------------------------------------------------
(* C34  Resume sees its own request.  In the resume branch the              *)
(* collaboration request passed to the oracle is the request this worker    *)
(* issued for the task (requester, target, request text), not an empty      *)
(* value.                                                                   *)

\* the inputs of the oracle call of the resume branch
resume_invoke ==
    [original_action |-> Get(state.pending_task, "action"),
     task_history |-> state.task_history,
     collaboration_request |-> state.collaboration_request,
     collaborator |-> Get(state.pending_task, "waiting_for"),
     collaborator_response |-> collaborator_response]

\* C34: whenever a worker resumes, the collaboration_request handed to its
\* oracle names this worker as requester and the awaited worker as target
\* and carries the request text
C34_ResumeSeesRequestAsClaimed ==
    \A w \in Catalog :
        ResumeActive(w) =>
            /\ TruthyDict(resume_invoke.collaboration_request)
            /\ Get(resume_invoke.collaboration_request, "requester") = <<w>>
            /\ Get(resume_invoke.collaboration_request, "target") = resume_invoke.collaborator
            /\ TruthyStr(Get(resume_invoke.collaboration_request, "request"))

-----------------------------------------------------------------------------
(* C35  Planning uses the current turn's utterance.  With utterances of     *)
(* several turns in the message list, the utterance intent analysis stores  *)
(* and the planner plans from is the most recently appended human message.  *)

\* the utterance the Session Driver supplied in this turn
CurrentUtterance == state.messages[Len(state.messages)].content

C35_CurrentUtteranceAsClaimed_Step ==
    /\ (pc = "intent_analysis" /\ pc' = "task_planner") =>
          state'.original_user_input = CurrentUtterance
    /\ PlanActive => plan_invoke.original_input = CurrentUtterance

\* C35: intent analysis stores, and the planner plans from, the utterance of
\* the current turn
C35_CurrentUtteranceAsClaimed == [][C35_CurrentUtteranceAsClaimed_Step]_vars

====
